---------------------------- MODULE Spec2Model ----------------------------
(***************************************************************************)
(* Model of the open-addressed hash table of src/HashTable.cpp: string     *)
(* keys, unsigned values, pseudo-random probing over a shuffled offsets    *)
(* vector, tombstones (EAR buckets) on removal and rehash on load factor.  *)
(*                                                                         *)
(* Vectors are sequences, read from index 0 through at.  The doubles        *)
(* threshold and                                                           *)
(* resizeFactor are modelled as exact fractions <<num, den>>; the values   *)
(* used are dyadic, so the double arithmetic of the code is exact on them. *)
(***************************************************************************)
EXTENDS Integers, Sequences, FiniteSets, TLC

(***************************************************************************)
(* Bounds of the model.                                                    *)
(***************************************************************************)
\* An insert whose rehash would allocate more than MaxCap buckets is not taken.
MaxCap == 4

\* Keys used by the arbitrary caller.
Keys == {"a", "b"}
\* Values the arbitrary caller inserts.  The code never branches on a value,
\* so two are enough to tell a stale value from a fresh one.
Vals == {1, 2}
\* Values the arbitrary caller assigns through operator[].
IndexVals == {1}
\* std::hash values: enough to give every home of every capacity up to MaxCap.
HashVals == 0..(MaxCap - 1)
\* The hash functions tried.  The callers treat the keys alike, so only one
\* function of each class under renaming of the keys is kept.
HashFunctions == {h \in [Keys -> HashVals] : h["a"] <= h["b"]}
\* Constructor arguments tried: initCapacity, inThreshold, inResizeFactor.
InitCaps == {1, 2, 3}
Thresholds == {<<1, 2>>, <<1, 1>>}
ResizeFactors == {<<3, 2>>, <<2, 1>>}

VARIABLES
    tableData,     \* std::vector<HashTableBucket>, as a sequence
    offsets,       \* std::vector<size_t>, as a sequence
    numFilled,     \* number of filled buckets
    badKeyDrain,   \* dummy cell returned by operator[] for a missing key
    threshold,     \* load factor threshold, <<num, den>>
    resizeFactor,  \* growth factor, <<num, den>>
    hash,          \* std::hash<std::string> restricted to the keys in use
    abs,           \* history: the abstract map, key -> {} or {value}
    removed,       \* history: the keys removed and not passed to insert since
    last,          \* history: the last call made and what it returned
    pc             \* position of the caller: 0 for an arbitrary caller

vars == <<tableData, offsets, numFilled, badKeyDrain, threshold, resizeFactor,
          hash, abs, removed, last, pc>>

tableVars == <<tableData, offsets, numFilled, badKeyDrain>>

(***************************************************************************)
(* HashTableBucket                                                         *)
(***************************************************************************)
\* The null pointer of find and of firstEARFound.
NoBucket == -1

\* HashTableBucket(): type ESS, empty key, value 0.
EmptyBucket == [type |-> "ESS", key |-> "", value |-> 0]

isEmpty(b) == b.type # "NORMAL"

isEAR(b) == b.type = "EAR"

isESS(b) == b.type = "ESS"

\* A load that forgets to store the value.
LoadKeepsValue(b, inKey, inValue) == [type |-> "NORMAL", key |-> inKey, value |-> b.value]

load(b, inKey, inValue) == [type |-> "NORMAL", key |-> inKey, value |-> inValue]

\* An unload that resets the bucket instead of leaving a tombstone.
UnloadToESS(b) == [b EXCEPT !.type = "ESS"]

\* An unload that clears the bucket as the default constructor leaves it.
UnloadClears(b) == EmptyBucket

unload(b) == [b EXCEPT !.type = "EAR"]

(***************************************************************************)
(* HashTable: accessors                                                    *)
(***************************************************************************)
\* std::vector::at: element i of a vector, counted from 0.
at(v, i) == v[i + 1]

\* std::vector::size
Cap(td) == Len(td)

capacity == Cap(tableData)

size == numFilled

\* A comparison that rehashes only above the threshold, not at it.
AlphaGT(n, c, th) == n * th[2] > th[1] * c

\* alpha() >= th, where alpha() = n / c and th = <<num, den>>.
AlphaGE(n, c, th) == n * th[2] >= th[1] * c

EmptyTable(c) == [i \in 1..c |-> EmptyBucket]

\* A shuffle of the whole vector, from offsets.begin() on.
ShuffleFromBegin(c) ==
    { [i \in 1..c |-> p[i] - 1] : p \in Permutations(1..c) }

\* Every outcome of the constructor's shuffle: offsets[0] = 0 and the rest a
\* permutation of 1..c-1.
AllPerms(c) ==
    { [i \in 1..c |-> IF i = 1 THEN 0 ELSE p[i - 1]] : p \in Permutations(1..(c - 1)) }

\* Some outcomes of the shuffle for a large table: position i >= 1 holds
\* 1 + (m * (i - 1) + b) mod (c - 1), for the steps m that give a permutation.
SamplePerms(c) ==
    LET f(m, b) == [i \in 1..c |-> IF i = 1 THEN 0 ELSE 1 + ((m * (i - 2) + b) % (c - 1))]
        isPerm(g) == \A i, j \in 1..c : g[i] = g[j] => i = j
    IN  {g \in {f(m, b) : m \in {1, 2}, b \in {0, 3}} : isPerm(g)}

\* The offsets tried for a table of c buckets: all of them up to MaxCap buckets.
Perms(c) == IF c <= MaxCap THEN AllPerms(c) ELSE SamplePerms(c)

(***************************************************************************)
(* find                                                                    *)
(***************************************************************************)
\* A find that compares the key of a tombstone like that of a filled bucket.
RECURSIVE FindSeesTombstones(_, _, _, _, _)
FindSeesTombstones(td, offs, home, key, i) ==
    IF i >= Cap(td) THEN NoBucket
    ELSE LET idx == (home + at(offs, i)) % Cap(td)
         IN  IF isESS(at(td, idx)) THEN NoBucket
             ELSE IF at(td, idx).key = key THEN idx
             ELSE FindSeesTombstones(td, offs, home, key, i + 1)

\* A find that gives up at a tombstone as if it were an ESS bucket.
RECURSIVE FindStopsAtEAR(_, _, _, _, _)
FindStopsAtEAR(td, offs, home, key, i) ==
    IF i >= Cap(td) THEN NoBucket
    ELSE LET idx == (home + at(offs, i)) % Cap(td)
         IN  IF isEmpty(at(td, idx)) THEN NoBucket
             ELSE IF at(td, idx).key = key THEN idx
             ELSE FindStopsAtEAR(td, offs, home, key, i + 1)

\* The loop of find from probe number i on: the index of the bucket found, or NoBucket.
RECURSIVE FindFrom(_, _, _, _, _)
FindFrom(td, offs, home, key, i) ==
    IF i >= Cap(td) THEN NoBucket
    ELSE LET idx == (home + at(offs, i)) % Cap(td)
         IN  IF isESS(at(td, idx)) THEN NoBucket
             ELSE IF isEAR(at(td, idx)) THEN FindFrom(td, offs, home, key, i + 1)
             ELSE IF at(td, idx).key = key THEN idx
             ELSE FindFrom(td, offs, home, key, i + 1)

find(td, offs, h, key) == FindFrom(td, offs, h[key] % Cap(td), key, 0)

\* A count that takes a tombstone for the end of the path.
RECURSIVE FindProbesStopAtEAR(_, _, _, _, _)
FindProbesStopAtEAR(td, offs, home, key, i) ==
    IF i >= Cap(td) THEN i
    ELSE LET idx == (home + at(offs, i)) % Cap(td)
         IN  IF isEmpty(at(td, idx)) THEN i + 1
             ELSE IF at(td, idx).key = key THEN i + 1
             ELSE FindProbesStopAtEAR(td, offs, home, key, i + 1)

\* The number of buckets the loop of find has read when it returns, from
\* probe number i on.
RECURSIVE FindProbesFrom(_, _, _, _, _)
FindProbesFrom(td, offs, home, key, i) ==
    IF i >= Cap(td) THEN i
    ELSE LET idx == (home + at(offs, i)) % Cap(td)
         IN  IF isESS(at(td, idx)) THEN i + 1
             ELSE IF isEAR(at(td, idx)) THEN FindProbesFrom(td, offs, home, key, i + 1)
             ELSE IF at(td, idx).key = key THEN i + 1
             ELSE FindProbesFrom(td, offs, home, key, i + 1)

FindProbes(td, offs, h, key) == FindProbesFrom(td, offs, h[key] % Cap(td), key, 0)

\* get(key) as an optional: {} for nullopt, {v} for a value.
GetIn(td, offs, h, key) ==
    LET f == find(td, offs, h, key)
    IN  IF f # NoBucket THEN {at(td, f).value} ELSE {}

ContainsIn(td, offs, h, key) == find(td, offs, h, key) # NoBucket

get(key) == GetIn(tableData, offsets, hash, key)

contains(key) == ContainsIn(tableData, offsets, hash, key)

\* keys() as a set.
KeySet(td) == {at(td, i).key : i \in {j \in 0..(Cap(td) - 1) : ~isEmpty(at(td, j))}}

(***************************************************************************)
(* keys                                                                    *)
(***************************************************************************)
\* What keys() gives back: the vector, or the std::out_of_range that
\* keyList.at throws when it is asked for an element past the end.
KeysResult(thrown, keyList) == [thrown |-> thrown, keyList |-> keyList]

\* A scan that takes every bucket that is not ESS for a filled one.
RECURSIVE KeysScanTombstones(_, _, _, _, _)
KeysScanTombstones(td, filled, keyList, keyListIndex, bucketNum) ==
    IF bucketNum >= Cap(td) THEN KeysResult(FALSE, keyList)
    ELSE IF ~isESS(at(td, bucketNum))
         THEN IF keyListIndex >= filled THEN KeysResult(TRUE, keyList)
              ELSE LET kl == [keyList EXCEPT ![keyListIndex + 1] = at(td, bucketNum).key]
                   IN  IF keyListIndex + 1 = filled THEN KeysResult(FALSE, kl)
                       ELSE KeysScanTombstones(td, filled, kl, keyListIndex + 1, bucketNum + 1)
         ELSE IF keyListIndex = filled THEN KeysResult(FALSE, keyList)
              ELSE KeysScanTombstones(td, filled, keyList, keyListIndex, bucketNum + 1)

\* The loop of keys() from bucket bucketNum on, keyListIndex keys collected.
RECURSIVE KeysScan(_, _, _, _, _)
KeysScan(td, filled, keyList, keyListIndex, bucketNum) ==
    IF bucketNum >= Cap(td) THEN KeysResult(FALSE, keyList)
    ELSE IF ~isEmpty(at(td, bucketNum))
         THEN IF keyListIndex >= filled THEN KeysResult(TRUE, keyList)
              ELSE LET kl == [keyList EXCEPT ![keyListIndex + 1] = at(td, bucketNum).key]
                   IN  IF keyListIndex + 1 = filled THEN KeysResult(FALSE, kl)
                       ELSE KeysScan(td, filled, kl, keyListIndex + 1, bucketNum + 1)
         ELSE IF keyListIndex = filled THEN KeysResult(FALSE, keyList)
              ELSE KeysScan(td, filled, keyList, keyListIndex, bucketNum + 1)

\* keys() on a table: keyList starts as filled empty strings.
KeysIn(td, filled) == KeysScan(td, filled, [i \in 1..filled |-> ""], 0, 0)

keys == KeysIn(tableData, numFilled)

(***************************************************************************)
(* operator<<                                                              *)
(***************************************************************************)
\* operator<< of a bucket: "<key, value>".
BucketText(b) == "<" \o b.key \o ", " \o ToString(b.value) \o ">"

\* An output that leaves out the ESS buckets only.
RECURSIVE StreamTombstones(_, _, _)
StreamTombstones(td, os, bucketNum) ==
    IF bucketNum >= Cap(td) THEN os
    ELSE IF ~isESS(at(td, bucketNum))
         THEN StreamTombstones(td, Append(os, "Bucket " \o ToString(bucketNum) \o ": "
                                                \o BucketText(at(td, bucketNum))),
                               bucketNum + 1)
         ELSE StreamTombstones(td, os, bucketNum + 1)

\* The loop of operator<< of a table from bucket bucketNum on; os is the
\* output so far as the sequence of its lines, each ended by std::endl.
RECURSIVE StreamFrom(_, _, _)
StreamFrom(td, os, bucketNum) ==
    IF bucketNum >= Cap(td) THEN os
    ELSE IF ~isEmpty(at(td, bucketNum))
         THEN StreamFrom(td, Append(os, "Bucket " \o ToString(bucketNum) \o ": "
                                          \o BucketText(at(td, bucketNum))),
                         bucketNum + 1)
         ELSE StreamFrom(td, os, bucketNum + 1)

\* os << hashTable on an empty stream.
StreamOut(td) == StreamFrom(td, <<>>, 0)

(***************************************************************************)
(* insert                                                                  *)
(***************************************************************************)
\* An insert that takes the first tombstone at once, without probing on for a duplicate.
RECURSIVE InsertAtFirstEAR(_, _, _, _, _, _)
InsertAtFirstEAR(td, offs, home, key, i, firstEARFound) ==
    IF i >= Cap(td) THEN [ok |-> FALSE, slot |-> NoBucket]
    ELSE LET idx == (home + at(offs, i)) % Cap(td)
         IN  IF isEmpty(at(td, idx)) THEN [ok |-> TRUE, slot |-> idx]
             ELSE IF key = at(td, idx).key THEN [ok |-> FALSE, slot |-> NoBucket]
             ELSE InsertAtFirstEAR(td, offs, home, key, i + 1, firstEARFound)

\* An insert that never goes back to a tombstone: it takes the first ESS
\* bucket on the path and fails when there is none.
RECURSIVE InsertAtFirstESS(_, _, _, _, _, _)
InsertAtFirstESS(td, offs, home, key, i, firstEARFound) ==
    IF i >= Cap(td) THEN [ok |-> FALSE, slot |-> NoBucket]
    ELSE LET idx == (home + at(offs, i)) % Cap(td)
         IN  IF isEmpty(at(td, idx))
             THEN IF isESS(at(td, idx))
                  THEN [ok |-> TRUE, slot |-> idx]
                  ELSE InsertAtFirstESS(td, offs, home, key, i + 1, firstEARFound)
             ELSE IF key = at(td, idx).key
                  THEN [ok |-> FALSE, slot |-> NoBucket]
                  ELSE InsertAtFirstESS(td, offs, home, key, i + 1, firstEARFound)

\* The probing loop of insert from probe number i on: whether the pair is
\* placed and the bucket it is placed in.
RECURSIVE InsertProbe(_, _, _, _, _, _)
InsertProbe(td, offs, home, key, i, firstEARFound) ==
    IF i >= Cap(td)
    THEN IF firstEARFound # NoBucket
         THEN [ok |-> TRUE, slot |-> firstEARFound]
         ELSE [ok |-> FALSE, slot |-> NoBucket]
    ELSE LET idx == (home + at(offs, i)) % Cap(td)
         IN  IF isEmpty(at(td, idx))
             THEN IF isESS(at(td, idx))
                  THEN [ok |-> TRUE,
                        slot |-> IF firstEARFound # NoBucket THEN firstEARFound ELSE idx]
                  ELSE InsertProbe(td, offs, home, key, i + 1,
                                   IF firstEARFound = NoBucket THEN idx ELSE firstEARFound)
             ELSE IF key = at(td, idx).key
                  THEN [ok |-> FALSE, slot |-> NoBucket]
                  ELSE InsertProbe(td, offs, home, key, i + 1, firstEARFound)

\* The table right after load(key, value), before the rehash check.
Placed(td, offs, h, key, value) ==
    LET p == InsertProbe(td, offs, h[key] % Cap(td), key, 0, NoBucket)
    IN  IF p.ok THEN [td EXCEPT ![p.slot + 1] = load(@, key, value)] ELSE td

(***************************************************************************)
(* insertTCT and removeTCT                                                 *)
(***************************************************************************)
\* An insertTCT that returns probeNum, the index of the last probe, not the
\* number of probes made.
RECURSIVE InsertTCTCountsFromZero(_, _, _, _, _, _)
InsertTCTCountsFromZero(td, offs, home, key, probeNum, firstEARFound) ==
    IF probeNum >= Len(offs)
    THEN [slot |-> firstEARFound, probes |-> Cap(td),
          inc |-> IF firstEARFound # NoBucket THEN 1 ELSE 0]
    ELSE LET idx == (home + at(offs, probeNum)) % Cap(td)
         IN  IF isEmpty(at(td, idx))
             THEN IF isESS(at(td, idx))
                  THEN [slot |-> IF firstEARFound # NoBucket THEN firstEARFound ELSE idx,
                        probes |-> probeNum, inc |-> 1]
                  ELSE InsertTCTCountsFromZero(td, offs, home, key, probeNum + 1,
                                   IF firstEARFound = NoBucket THEN idx ELSE firstEARFound)
             ELSE IF key = at(td, idx).key
                  THEN [slot |-> NoBucket, probes |-> probeNum, inc |-> 0]
                  ELSE InsertTCTCountsFromZero(td, offs, home, key, probeNum + 1,
                                               firstEARFound)

\* An insertTCT that loads into the first tombstone after the loop without
\* counting the pair.
RECURSIVE InsertTCTUncounted(_, _, _, _, _, _)
InsertTCTUncounted(td, offs, home, key, probeNum, firstEARFound) ==
    IF probeNum >= Len(offs)
    THEN [slot |-> firstEARFound, probes |-> Cap(td), inc |-> 0]
    ELSE LET idx == (home + at(offs, probeNum)) % Cap(td)
         IN  IF isEmpty(at(td, idx))
             THEN IF isESS(at(td, idx))
                  THEN [slot |-> IF firstEARFound # NoBucket THEN firstEARFound ELSE idx,
                        probes |-> probeNum + 1, inc |-> 1]
                  ELSE InsertTCTUncounted(td, offs, home, key, probeNum + 1,
                                   IF firstEARFound = NoBucket THEN idx ELSE firstEARFound)
             ELSE IF key = at(td, idx).key
                  THEN [slot |-> NoBucket, probes |-> probeNum + 1, inc |-> 0]
                  ELSE InsertTCTUncounted(td, offs, home, key, probeNum + 1, firstEARFound)

\* The loop of insertTCT from probe number probeNum on, and what follows it:
\* the bucket the pair is loaded into (NoBucket when none is), the number
\* returned, and by how much numFilled grows.
RECURSIVE InsertTCTProbe(_, _, _, _, _, _)
InsertTCTProbe(td, offs, home, key, probeNum, firstEARFound) ==
    IF probeNum >= Len(offs)
    THEN [slot |-> firstEARFound, probes |-> Cap(td),
          inc |-> IF firstEARFound # NoBucket THEN 1 ELSE 0]
    ELSE LET idx == (home + at(offs, probeNum)) % Cap(td)
         IN  IF isEmpty(at(td, idx))
             THEN IF isESS(at(td, idx))
                  THEN [slot |-> IF firstEARFound # NoBucket THEN firstEARFound ELSE idx,
                        probes |-> probeNum + 1, inc |-> 1]
                  ELSE InsertTCTProbe(td, offs, home, key, probeNum + 1,
                                   IF firstEARFound = NoBucket THEN idx ELSE firstEARFound)
             ELSE IF key = at(td, idx).key
                  THEN [slot |-> NoBucket, probes |-> probeNum + 1, inc |-> 0]
                  ELSE InsertTCTProbe(td, offs, home, key, probeNum + 1, firstEARFound)

\* The loop of removeTCT from probe number probeNum on: the bucket that is
\* unloaded (NoBucket when none is) and the number returned.
RECURSIVE RemoveTCTProbe(_, _, _, _, _)
RemoveTCTProbe(td, offs, home, key, probeNum) ==
    IF probeNum >= Len(offs) THEN [slot |-> NoBucket, probes |-> Cap(td)]
    ELSE LET idx == (home + at(offs, probeNum)) % Cap(td)
         IN  IF isESS(at(td, idx)) THEN [slot |-> NoBucket, probes |-> probeNum + 1]
             ELSE IF isEAR(at(td, idx))
                  THEN RemoveTCTProbe(td, offs, home, key, probeNum + 1)
             ELSE IF at(td, idx).key = key THEN [slot |-> idx, probes |-> probeNum + 1]
             ELSE RemoveTCTProbe(td, offs, home, key, probeNum + 1)

(***************************************************************************)
(* rehash                                                                  *)
(***************************************************************************)
\* A conversion that rounds capacity() * resizeFactor to the nearest integer
\* (halves away from zero, as std::round does).
RoundedCapacity(c, rf) == (2 * c * rf[1] + rf[2]) \div (2 * rf[2])

\* capacity() * resizeFactor converted to size_t: the fraction is dropped.
NewCapacity(c, rf) == (c * rf[1]) \div rf[2]


\* insertIntoNewTable from probe number i on: the first ESS bucket takes the pair.
RECURSIVE IntoNewFrom(_, _, _, _, _, _)
IntoNewFrom(td, offs, home, key, value, i) ==
    IF i >= Cap(td) THEN [ok |-> FALSE, td |-> td]
    ELSE LET idx == (home + at(offs, i)) % Cap(td)
         IN  IF isESS(at(td, idx))
             THEN [ok |-> TRUE, td |-> [td EXCEPT ![idx + 1] = load(@, key, value)]]
             ELSE IntoNewFrom(td, offs, home, key, value, i + 1)

\* An insertIntoNewTable that starts probing at the second offset.
IntoNewSkipsHome(td, offs, h, key, value) ==
    IF Cap(td) = 0 THEN [ok |-> FALSE, td |-> td]
    ELSE IntoNewFrom(td, offs, h[key] % Cap(td), key, value, 1)

insertIntoNewTable(td, offs, h, key, value) ==
    IF Cap(td) = 0 THEN [ok |-> FALSE, td |-> td]
    ELSE IntoNewFrom(td, offs, h[key] % Cap(td), key, value, 0)

\* A scan that compares against the count of filled buckets before the insert.
RECURSIVE RehashScanStale(_, _, _, _, _, _, _)
RehashScanStale(old, filled, h, newTd, newOffs, newFilled, bucketNum) ==
    IF bucketNum >= Cap(old) THEN newTd
    ELSE LET ins == IF ~isEmpty(at(old, bucketNum))
                    THEN insertIntoNewTable(newTd, newOffs, h,
                                            at(old, bucketNum).key, at(old, bucketNum).value)
                    ELSE [ok |-> FALSE, td |-> newTd]
             nf == newFilled + (IF ins.ok THEN 1 ELSE 0)
         IN  IF filled - 1 = nf THEN ins.td
             ELSE RehashScanStale(old, filled, h, ins.td, newOffs, nf, bucketNum + 1)

\* The loop of rehash from bucket bucketNum on; newFilled is newTable.numFilled.
RECURSIVE RehashScan(_, _, _, _, _, _, _)
RehashScan(old, filled, h, newTd, newOffs, newFilled, bucketNum) ==
    IF bucketNum >= Cap(old) THEN newTd
    ELSE LET ins == IF ~isEmpty(at(old, bucketNum))
                    THEN insertIntoNewTable(newTd, newOffs, h,
                                            at(old, bucketNum).key, at(old, bucketNum).value)
                    ELSE [ok |-> FALSE, td |-> newTd]
             nf == newFilled + (IF ins.ok THEN 1 ELSE 0)
         IN  IF filled = nf THEN ins.td
             ELSE RehashScan(old, filled, h, ins.td, newOffs, nf, bucketNum + 1)

\* A rehash that resizes tableData in place: the old buckets stay where
\* they are and ESS buckets are added behind them.
RehashResizes(td, filled, h, rf, newOffs) ==
    td \o [i \in 1..(NewCapacity(Cap(td), rf) - Cap(td)) |-> EmptyBucket]

\* The tableData rehash leaves, given the offsets newTable was constructed with.
rehash(td, filled, h, rf, newOffs) ==
    RehashScan(td, filled, h, EmptyTable(NewCapacity(Cap(td), rf)), newOffs, 0, 0)

(***************************************************************************)
(* The calls                                                               *)
(***************************************************************************)
\* The record of a call: its name and arguments, what it returned (for
\* operator[]: whether it found the key) and whether it rehashed.
Call(op, key, val, ok, rehashed) ==
    [op |-> op, key |-> key, val |-> val, ok |-> ok, rehashed |-> rehashed]

\* HashTable(initCapacity, inThreshold, inResizeFactor)
Construct(initCapacity, inThreshold, inResizeFactor, offs) ==
    /\ tableData = EmptyTable(initCapacity)
    /\ offsets = offs
    /\ numFilled = 0
    /\ badKeyDrain = 0
    /\ threshold = inThreshold
    /\ resizeFactor = inResizeFactor

\* An arbitrary caller constructs a small table.
InitAny ==
    /\ \E c \in InitCaps, th \in Thresholds, rf \in ResizeFactors :
          \E offs \in Perms(c) : Construct(c, th, rf, offs)
    /\ hash \in HashFunctions
    /\ abs = [k \in Keys |-> {}]
    /\ removed = {}
    /\ last = Call("construct", "", 0, TRUE, FALSE)
    /\ pc = 0

\* bool insert(key, value)
Insert(key, value) ==
    LET p == InsertProbe(tableData, offsets, hash[key] % capacity, key, 0, NoBucket)
        placed == Placed(tableData, offsets, hash, key, value)
    IN  /\ IF p.ok
           THEN /\ numFilled' = numFilled + 1
                /\ IF AlphaGE(numFilled + 1, capacity, threshold)
                   THEN /\ \E newOffs \in Perms(NewCapacity(capacity, resizeFactor)) :
                              /\ tableData' = rehash(placed, numFilled + 1, hash,
                                                     resizeFactor, newOffs)
                              /\ offsets' = newOffs
                        /\ last' = Call("insert", key, value, TRUE, TRUE)
                   ELSE /\ tableData' = placed
                        /\ offsets' = offsets
                        /\ last' = Call("insert", key, value, TRUE, FALSE)
           ELSE /\ UNCHANGED <<tableData, offsets, numFilled>>
                /\ last' = Call("insert", key, value, FALSE, FALSE)
        /\ abs' = IF abs[key] = {} THEN [abs EXCEPT ![key] = {value}] ELSE abs
        /\ removed' = removed \ {key}
        /\ UNCHANGED <<badKeyDrain, threshold, resizeFactor, hash>>

\* bool remove(key)
Remove(key) ==
    LET f == find(tableData, offsets, hash, key)
    IN  /\ IF f # NoBucket
           THEN /\ tableData' = [tableData EXCEPT ![f + 1] = unload(@)]
                /\ numFilled' = numFilled - 1
                /\ last' = Call("remove", key, 0, TRUE, FALSE)
           ELSE /\ UNCHANGED <<tableData, numFilled>>
                /\ last' = Call("remove", key, 0, FALSE, FALSE)
        /\ abs' = [abs EXCEPT ![key] = {}]
        /\ removed' = IF f # NoBucket THEN removed \cup {key} ELSE removed
        /\ UNCHANGED <<offsets, badKeyDrain, threshold, resizeFactor, hash>>

\* std::optional<size_t> get(key)
Get(key) ==
    /\ last' = Call("get", key, 0, get(key) # {}, FALSE)
    /\ UNCHANGED <<tableVars, threshold, resizeFactor, hash, abs, removed>>

\* bool contains(key)
Contains(key) ==
    /\ last' = Call("contains", key, 0, contains(key), FALSE)
    /\ UNCHANGED <<tableVars, threshold, resizeFactor, hash, abs, removed>>

\* An operator[] that hands out the key's home bucket when the key is missing.
IndexWriteHome(key, value) ==
    LET f == find(tableData, offsets, hash, key)
        g == IF f # NoBucket THEN f ELSE hash[key] % capacity
    IN  /\ tableData' = [tableData EXCEPT ![g + 1].value = value]
        /\ last' = Call("index", key, value, f # NoBucket, FALSE)
        /\ abs' = IF abs[key] # {} THEN [abs EXCEPT ![key] = {value}] ELSE abs
        /\ UNCHANGED <<offsets, numFilled, badKeyDrain, threshold, resizeFactor, hash, removed>>

\* An operator[] that hands out a copy of the value: the write is lost.
IndexWriteCopy(key, value) ==
    LET f == find(tableData, offsets, hash, key)
    IN  /\ badKeyDrain' = IF f # NoBucket THEN badKeyDrain ELSE value
        /\ last' = Call("index", key, value, f # NoBucket, FALSE)
        /\ abs' = IF abs[key] # {} THEN [abs EXCEPT ![key] = {value}] ELSE abs
        /\ UNCHANGED <<tableData, offsets, numFilled, threshold, resizeFactor, hash, removed>>

\* table[key] = value
IndexWrite(key, value) ==
    LET f == find(tableData, offsets, hash, key)
    IN  /\ IF f # NoBucket
           THEN /\ tableData' = [tableData EXCEPT ![f + 1].value = value]
                /\ UNCHANGED badKeyDrain
           ELSE /\ badKeyDrain' = value
                /\ UNCHANGED tableData
        /\ last' = Call("index", key, value, f # NoBucket, FALSE)
        /\ abs' = IF abs[key] # {} THEN [abs EXCEPT ![key] = {value}] ELSE abs
        /\ UNCHANGED <<offsets, numFilled, threshold, resizeFactor, hash, removed>>

\* std::vector<std::string> keys() const
KeysCall ==
    /\ last' = Call("keys", "", 0, ~keys.thrown, FALSE)
    /\ UNCHANGED <<tableVars, threshold, resizeFactor, hash, abs, removed>>

\* std::cout << table
StreamCall ==
    /\ last' = Call("stream", "", 0, TRUE, FALSE)
    /\ UNCHANGED <<tableVars, threshold, resizeFactor, hash, abs, removed>>

\* The record of a probe-counting call: its name and arguments, whether it
\* changed the table, and the number of probes it returned.
CallTCT(op, key, val, ok, probes) ==
    [op |-> op, key |-> key, val |-> val, ok |-> ok, rehashed |-> FALSE,
     probes |-> probes]

\* size_t insertTCT(key, value)
InsertTCT(key, value) ==
    LET p == InsertTCTProbe(tableData, offsets, hash[key] % capacity, key, 0, NoBucket)
    IN  /\ tableData' = IF p.slot # NoBucket
                        THEN [tableData EXCEPT ![p.slot + 1] = load(@, key, value)]
                        ELSE tableData
        /\ numFilled' = numFilled + p.inc
        /\ last' = CallTCT("insertTCT", key, value, p.slot # NoBucket, p.probes)
        /\ abs' = IF abs[key] = {} THEN [abs EXCEPT ![key] = {value}] ELSE abs
        /\ removed' = removed \ {key}
        /\ UNCHANGED <<offsets, badKeyDrain, threshold, resizeFactor, hash>>

\* size_t removeTCT(key)
RemoveTCT(key) ==
    LET p == RemoveTCTProbe(tableData, offsets, hash[key] % capacity, key, 0)
    IN  /\ IF p.slot # NoBucket
           THEN /\ tableData' = [tableData EXCEPT ![p.slot + 1] = unload(@)]
                /\ numFilled' = numFilled - 1
           ELSE UNCHANGED <<tableData, numFilled>>
        /\ last' = CallTCT("removeTCT", key, 0, p.slot # NoBucket, p.probes)
        /\ abs' = [abs EXCEPT ![key] = {}]
        /\ removed' = IF p.slot # NoBucket THEN removed \cup {key} ELSE removed
        /\ UNCHANGED <<offsets, badKeyDrain, threshold, resizeFactor, hash>>

\* Whether insert(key, .) would go on to rehash.
WouldRehash(key) ==
    /\ InsertProbe(tableData, offsets, hash[key] % capacity, key, 0, NoBucket).ok
    /\ AlphaGE(numFilled + 1, capacity, threshold)

\* The model takes no insert whose rehash would allocate more than MaxCap buckets.
Fits(key) == WouldRehash(key) => NewCapacity(capacity, resizeFactor) <= MaxCap

\* An arbitrary caller makes any public call on any key.
AnyInsert == \E k \in Keys, v \in Vals : pc = 0 /\ pc' = pc /\ Fits(k) /\ Insert(k, v)

AnyRemove == \E k \in Keys : pc = 0 /\ pc' = pc /\ Remove(k)

AnyGet == \E k \in Keys : pc = 0 /\ pc' = pc /\ Get(k)

AnyContains == \E k \in Keys : pc = 0 /\ pc' = pc /\ Contains(k)

AnyIndexWrite == \E k \in Keys, v \in IndexVals : pc = 0 /\ pc' = pc /\ IndexWrite(k, v)

AnyKeys == pc = 0 /\ pc' = pc /\ KeysCall

AnyStream == pc = 0 /\ pc' = pc /\ StreamCall

AnyInsertTCT == \E k \in Keys, v \in Vals : pc = 0 /\ pc' = pc /\ InsertTCT(k, v)

AnyRemoveTCT == \E k \in Keys : pc = 0 /\ pc' = pc /\ RemoveTCT(k)

(***************************************************************************)
(* functionalityTest                                                       *)
(***************************************************************************)
\* The default arguments of the constructor.
DefaultCapacity == 8
DefaultThreshold == <<1, 2>>
DefaultResizeFactor == <<2, 1>>

FTCall(op, key, val) == [op |-> op, key |-> key, val |-> val]

\* The calls functionalityTest makes on myTable that can write to it, or
\* whose result it tests, in order.  Its calls of keys() and its output of
\* the table, which only read, are FTKeysCall and FTStream.
FTScript ==
    << FTCall("insert", "one", 1), FTCall("insert", "two", 2), FTCall("insert", "three", 3),
       FTCall("insert", "four", 4), FTCall("insert", "five", 5), FTCall("insert", "six", 6),
       FTCall("insert", "seven", 7),
       FTCall("contains", "seven", 0), FTCall("contains", "blarg", 0),
       FTCall("insert", "seven", 16),
       FTCall("index", "four", 27), FTCall("index", "Bork", 52),
       FTCall("remove", "five", 0), FTCall("remove", "six", 0), FTCall("remove", "seven", 0),
       FTCall("remove", "seven", 0),
       FTCall("get", "four", 0), FTCall("get", "blarg", 0), FTCall("get", "five", 0),
       FTCall("remove", "one", 0), FTCall("remove", "two", 0), FTCall("remove", "three", 0),
       FTCall("remove", "four", 0),
       FTCall("insert", "eight", 8), FTCall("insert", "nine", 9), FTCall("insert", "ten", 10),
       FTCall("insert", "eleven", 11), FTCall("insert", "twelve", 12),
       FTCall("insert", "thirteen", 13), FTCall("insert", "fourteen", 14),
       FTCall("insert", "fifteen", 15) >>

FTKeys == {FTScript[i].key : i \in 1..Len(FTScript)}

\* The keys of functionalityTest in the order of their first use.
FTOrd(key) == CHOOSE i \in 1..Len(FTScript) :
                 /\ FTScript[i].key = key
                 /\ \A j \in 1..(i - 1) : FTScript[j].key # key

\* Some std::hash functions on the keys of functionalityTest: spread out,
\* all colliding, colliding modulo 8, 16 and 32.
FTHashes ==
    { [k \in FTKeys |-> m[1] * FTOrd(k) + m[2]] :
        m \in {<<1, 0>>, <<0, 5>>, <<7, 2>>, <<8, 3>>, <<16, 1>>, <<32, 6>>} }

\* functionalityTest: HashTable myTable;
InitFT ==
    /\ \E offs \in Perms(DefaultCapacity) :
          Construct(DefaultCapacity, DefaultThreshold, DefaultResizeFactor, offs)
    /\ hash \in FTHashes
    /\ abs = [k \in FTKeys |-> {}]
    /\ removed = {}
    /\ last = Call("construct", "", 0, TRUE, FALSE)
    /\ pc = 1

\* functionalityTest makes its next call.
FTStep ==
    /\ pc \in 1..Len(FTScript)
    /\ pc' = pc + 1
    /\ LET c == FTScript[pc]
       IN  CASE c.op = "insert" -> Insert(c.key, c.val)
             [] c.op = "remove" -> Remove(c.key)
             [] c.op = "get" -> Get(c.key)
             [] c.op = "contains" -> Contains(c.key)
             [] c.op = "index" -> IndexWrite(c.key, c.val)

\* The positions at which functionalityTest calls keys(): after the seven
\* inserts, after the three removals, after the reinsertions and at the end.
FTKeysAt == {8, 16, 31, 32}

\* functionalityTest lists the keys.
FTKeysCall == pc \in FTKeysAt /\ pc' = pc /\ KeysCall

\* The positions at which functionalityTest writes myTable to std::cout.
FTStreamAt == {1, 4, 8, 12, 13, 16, 31, 32}

\* functionalityTest writes the table out.
FTStream == pc \in FTStreamAt /\ pc' = pc /\ StreamCall

Init == InitAny \/ InitFT

Next ==
    \/ AnyInsert
    \/ AnyRemove
    \/ AnyGet
    \/ AnyContains
    \/ AnyIndexWrite
    \/ AnyKeys
    \/ AnyStream
    \/ FTStep
    \/ FTKeysCall
    \/ FTStream

Spec == Init /\ [][Next]_vars

\* A caller that drives a small table with insert and remove only.
NextInsertRemove ==
    \/ AnyInsert
    \/ AnyRemove

SpecInsertRemove == InitAny /\ [][NextInsertRemove]_vars

\* Thresholds a caller may pass that are not positive.
NonPositiveThresholds == {<<0, 1>>, <<-1, 2>>}

\* A caller constructs a small table with a threshold that is not positive:
\* the constructor stores its arguments as they come.
InitNonPositive ==
    /\ \E c \in InitCaps, th \in NonPositiveThresholds, rf \in ResizeFactors :
          \E offs \in Perms(c) : Construct(c, th, rf, offs)
    /\ hash \in HashFunctions
    /\ abs = [k \in Keys |-> {}]
    /\ removed = {}
    /\ last = Call("construct", "", 0, TRUE, FALSE)
    /\ pc = 0

\* The calls of an arbitrary caller that write to the table or test it.
NextAnyCaller ==
    \/ AnyInsert
    \/ AnyRemove
    \/ AnyGet
    \/ AnyContains
    \/ AnyIndexWrite

SpecNonPositive == InitNonPositive /\ [][NextAnyCaller]_vars

\* A caller that measures probe counts: it fills a small table with insert
\* and then calls insertTCT and removeTCT on it.
NextTCT ==
    \/ AnyInsert
    \/ AnyRemove
    \/ AnyInsertTCT
    \/ AnyRemoveTCT

SpecTCT == InitAny /\ [][NextTCT]_vars

(***************************************************************************)
(* Properties                                                              *)
(***************************************************************************)
\* The keys the caller uses.
InUse == DOMAIN hash

\* The indices (from 0) of the filled buckets.
Filled(td) == {i \in 0..(Cap(td) - 1) : ~isEmpty(at(td, i))}

\* The index of the bucket probe number i of key visits.
PathIdx(td, offs, h, key, i) == ((h[key] % Cap(td)) + at(offs, i)) % Cap(td)

\* A tombstone lies on key's probe path before the bucket that holds key.
TombstoneBefore(td, offs, h, key) ==
    \E i, j \in 0..(Cap(td) - 1) :
        /\ j < i
        /\ PathIdx(td, offs, h, key, i) = find(td, offs, h, key)
        /\ isEAR(at(td, PathIdx(td, offs, h, key, j)))

\* No bucket of the table is ESS.
NoESS(td) == \A i \in 0..(Cap(td) - 1) : ~isESS(at(td, i))

\* C1: get(k) returns v exactly when the abstract map (insert-if-absent,
\* delete, overwrite-if-present) holds k -> v, and nullopt otherwise.
C1_Refinement == \A k \in InUse : get(k) = abs[k]

\* The refinement of C1 on the configurations in which every rehash grows
\* the table.
C1_RefinementWhereGrowing ==
    (\A c \in 1..capacity : NewCapacity(c, resizeFactor) > c) => C1_Refinement

\* C2: size() equals the number of keys k for which contains(k) is true.
C2_SizeIsContainsCount == size = Cardinality({k \in InUse : contains(k)})

\* C2 witness: a key was removed, its tombstone is in the table and another
\* key is still filled.
C2_Witness ==
    /\ last.op = "remove" /\ last.ok
    /\ size >= 1
    /\ \E i \in 0..(capacity - 1) : isEAR(at(tableData, i))

\* C3: insert(k, v) on a table that contains k returns false and changes no
\* bucket, nor size(), capacity() or the offsets, and get(k) is as before.
C3_DuplicateInsert ==
    [][(last'.op = "insert" /\ ContainsIn(tableData, offsets, hash, last'.key))
         => /\ ~last'.ok
            /\ UNCHANGED tableVars
            /\ GetIn(tableData', offsets', hash', last'.key)
                 = GetIn(tableData, offsets, hash, last'.key)]_vars

\* C3 witness: a duplicate insert was refused with a tombstone on the key's
\* probe path before the bucket that holds the key.
C3_Witness ==
    /\ last.op = "insert" /\ ~last.ok
    /\ contains(last.key)
    /\ TombstoneBefore(tableData, offsets, hash, last.key)

\* C4: after remove(k) returns true, get(k) is nullopt and contains(k) is
\* false, size() is one less and no other key's get has changed; a key that
\* is not contained stays so until it is inserted, and remove of it returns false.
C4_RemoveRoundTrip ==
    [][/\ (last'.op = "remove" /\ last'.ok)
          => /\ GetIn(tableData', offsets', hash', last'.key) = {}
             /\ ~ContainsIn(tableData', offsets', hash', last'.key)
             /\ numFilled' = numFilled - 1
             /\ \A j \in InUse \ {last'.key} :
                   GetIn(tableData', offsets', hash', j) = GetIn(tableData, offsets, hash, j)
       /\ \A k \in InUse :
             (k \in removed /\ ~(last'.op = "insert" /\ last'.key = k))
                => /\ ~ContainsIn(tableData', offsets', hash', k)
                   /\ GetIn(tableData', offsets', hash', k) = {}
                   /\ (last'.op = "remove" /\ last'.key = k => ~last'.ok)]_vars

\* C4 witness: a second remove of a removed key has returned false while the
\* tombstone still holds the removed pair and another key is filled.
C4_Witness ==
    /\ last.op = "remove" /\ ~last.ok /\ last.key \in removed
    /\ size >= 1
    /\ \E i \in 0..(capacity - 1) :
          isEAR(at(tableData, i)) /\ at(tableData, i).key = last.key

\* C5: the keys, every get result and size() are the same right before a
\* rehash (the table with the new pair loaded) and right after it.
C5_RehashPreserves ==
    [][last'.rehashed
         => LET before == Placed(tableData, offsets, hash, last'.key, last'.val)
            IN  /\ KeySet(tableData') = KeySet(before)
                /\ \A k \in InUse :
                      GetIn(tableData', offsets', hash', k) = GetIn(before, offsets, hash, k)
                /\ Cardinality(Filled(tableData')) = Cardinality(Filled(before))
                /\ numFilled' = Cardinality(Filled(before))]_vars

\* C5 witness: a rehash has moved two pairs from a table that held a tombstone.
C5_Witness ==
    /\ last.op = "insert" /\ last.rehashed
    /\ size >= 2
    /\ removed # {}

\* C6: whenever an insert makes size()/capacity() >= threshold, capacity()
\* is strictly larger afterwards than before that insert, and it never shrinks.
C6_GrowthOnThreshold ==
    [][/\ (last'.op = "insert" /\ last'.ok /\ AlphaGE(numFilled', capacity, threshold))
          => capacity' > capacity
       /\ capacity' >= capacity]_vars

\* C7: capacity() changes only inside an insert that returns true, and it
\* changes if and only if size()/capacity() right after placing the new pair
\* is >= threshold; in functionalityTest the table stays at 16 buckets while
\* seven other keys replace the seven removed ones and the 8th live key
\* raises it to 32.
C7_CapacityChangesIff ==
    [][/\ capacity' # capacity => (last'.op = "insert" /\ last'.ok)
       /\ (last'.op = "insert" /\ last'.ok)
             => (capacity' # capacity <=> AlphaGE(numFilled', capacity, threshold))
       /\ pc' \in 24..31 => capacity' = 16
       /\ pc' = 32 => (capacity' = 32 /\ numFilled' = 8)]_vars

C9_AbsentKey ==
    [][/\ (last'.op \in {"get", "contains", "remove"} /\ abs[last'.key] = {})
          => (~last'.ok /\ UNCHANGED tableVars)
       /\ \A k \in InUse :
             abs'[k] = {} => /\ GetIn(tableData', offsets', hash', k) = {}
                             /\ ~ContainsIn(tableData', offsets', hash', k)]_vars

\* C9 witness: remove of a removed key has returned false on a table of more
\* than one bucket, none of them ESS, that holds the key's tombstone.
C9_Witness ==
    /\ last.op = "remove" /\ ~last.ok /\ abs[last.key] = {}
    /\ capacity >= 2
    /\ NoESS(tableData)
    /\ \E i \in 0..(capacity - 1) :
          isEAR(at(tableData, i)) /\ at(tableData, i).key = last.key

\* C10: after remove(k) has succeeded, a later insert(k, v2) returns true and
\* get(k) then returns v2.
C10_ReinsertAfterRemove ==
    [][(last'.op = "insert" /\ last'.key \in removed)
         => /\ last'.ok
            /\ GetIn(tableData', offsets', hash', last'.key) = {last'.val}]_vars

\* C11: operator[] on a key the table does not contain returns the dummy
\* cell, and writing through it changes no bucket, nor size(), capacity() or
\* the offsets; the key is still not contained and every get is as before.
C11_IndexAbsent ==
    [][(last'.op = "index" /\ ~ContainsIn(tableData, offsets, hash, last'.key))
         => /\ ~last'.ok
            /\ badKeyDrain' = last'.val
            /\ tableData' = tableData
            /\ numFilled' = numFilled /\ capacity' = capacity /\ offsets' = offsets
            /\ ~ContainsIn(tableData', offsets', hash', last'.key)
            /\ \A k \in InUse :
                  GetIn(tableData', offsets', hash', k) = GetIn(tableData, offsets, hash, k)]_vars

\* C11 witness: a write through operator[] on a removed key went to the
\* dummy cell while the key's tombstone, holding another value, and a filled
\* bucket are in the table.
C11_Witness ==
    /\ last.op = "index" /\ ~last.ok
    /\ badKeyDrain = last.val
    /\ size >= 1
    /\ \E i \in 0..(capacity - 1) :
          /\ isEAR(at(tableData, i))
          /\ at(tableData, i).key = last.key
          /\ at(tableData, i).value # last.val

\* C12: operator[] on a key the table contains refers to the key's stored
\* value: after writing w through it get(k) is w, and size(), capacity(), the
\* keys and the value of every other key are as before.
C12_IndexPresent ==
    [][(last'.op = "index" /\ ContainsIn(tableData, offsets, hash, last'.key))
         => /\ last'.ok
            /\ GetIn(tableData', offsets', hash', last'.key) = {last'.val}
            /\ numFilled' = numFilled /\ capacity' = capacity
            /\ KeySet(tableData') = KeySet(tableData)
            /\ \A j \in InUse \ {last'.key} :
                  GetIn(tableData', offsets', hash', j) = GetIn(tableData, offsets, hash, j)]_vars

\* C12 witness: a write through operator[] has set the value of a key that
\* is not in its home bucket, next to another key that holds a different value.
C12_Witness ==
    /\ last.op = "index" /\ last.ok
    /\ get(last.key) = {last.val}
    /\ find(tableData, offsets, hash, last.key) # hash[last.key] % capacity
    /\ \E j \in InUse \ {last.key} : get(j) # {} /\ get(j) # {last.val}

\* The parameters the table was constructed with are valid: threshold in
\* (0, 1] and resizeFactor > 1 (the capacity is checked where it is used).
ValidParams ==
    /\ threshold[1] > 0 /\ threshold[1] <= threshold[2]
    /\ resizeFactor[1] > resizeFactor[2]

\* C13: on a table constructed with valid parameters and driven by insert
\* and remove only, insert(k, v) of a key the table does not contain never
\* returns false.
C13_NeverFull ==
    [][(/\ ValidParams /\ capacity >= 1
        /\ last'.op = "insert"
        /\ ~ContainsIn(tableData, offsets, hash, last'.key))
         => last'.ok]_vars

\* C14: a table with capacity 0, a non-positive threshold or a non-positive
\* resize factor is never produced, so no operation runs on one.
C14_InvalidRejected ==
    [][capacity # 0 /\ threshold[1] > 0 /\ resizeFactor[1] > 0]_vars

\* The index of the j-th filled bucket (j from 1) in ascending order.
NthFilled(td, j) == CHOOSE i \in Filled(td) : Cardinality({x \in Filled(td) : x < i}) = j - 1

\* The elements of a sequence.
Range(f) == {f[i] : i \in DOMAIN f}

\* C15: keys() returns the keys of the filled buckets in ascending bucket
\* order, each once: as many as size(), every listed key is contained and no
\* removed key is listed, and no filled bucket lies past the point where
\* the scan stops.
C15_KeysInSlotOrder ==
    LET keyList == keys.keyList
    IN  /\ ~keys.thrown
        /\ Len(keyList) = size
        /\ Len(keyList) = Cardinality(Filled(tableData))
        /\ \A j \in 1..Len(keyList) : keyList[j] = at(tableData, NthFilled(tableData, j)).key
        /\ \A i, j \in 1..Len(keyList) : keyList[i] = keyList[j] => i = j
        /\ Range(keyList) = {k \in InUse : contains(k)}
        /\ Range(keyList) \cap removed = {}

\* C15 witness: functionalityTest lists the keys after its three removals:
\* four keys, with a tombstone below a filled bucket and the last filled
\* bucket not the last bucket of the table.
C15_Witness ==
    /\ pc = 16 /\ last.op = "keys" /\ last.ok
    /\ Len(keys.keyList) = 4
    /\ \E i, j \in 0..(capacity - 1) :
          i < j /\ isEAR(at(tableData, i)) /\ ~isEmpty(at(tableData, j))
    /\ isEmpty(at(tableData, capacity - 1))

\* The line the rendering is to show for bucket i holding key k with value v.
LineOf(i, k, v) == "Bucket " \o ToString(i) \o ": <" \o k \o ", " \o ToString(v) \o ">"

\* C16: the output of a table has one line per filled bucket and none for
\* an ESS or EAR bucket, in ascending bucket order, each line with the
\* bucket's index, its key and the value get returns for that key; a table
\* of size 0 gives no line.
C16_Rendering ==
    LET os == StreamOut(tableData)
    IN  /\ Len(os) = Cardinality(Filled(tableData))
        /\ Len(os) = size
        /\ \A j \in 1..Len(os) :
              LET i == NthFilled(tableData, j)
                  k == at(tableData, i).key
              IN  /\ get(k) # {}
                  /\ \E v \in get(k) : os[j] = LineOf(i, k, v)
        /\ size = 0 => os = <<>>

\* C16 witness: functionalityTest writes the table out after its three
\* removals: four lines, one of them for "four" with the value assigned
\* through operator[], with a tombstone below a filled bucket.
C16_Witness ==
    /\ pc = 16 /\ last.op = "stream"
    /\ Len(StreamOut(tableData)) = 4
    /\ \E i \in 0..(capacity - 1) : LineOf(i, "four", 27) \in Range(StreamOut(tableData))
    /\ \E i, j \in 0..(capacity - 1) :
          i < j /\ isEAR(at(tableData, i)) /\ ~isEmpty(at(tableData, j))

\* The position of bucket idx on key's probe path.
PathPos(td, offs, h, key, idx) == CHOOSE i \in 0..(Cap(td) - 1) : PathIdx(td, offs, h, key, i) = idx

\* C17: in a call that does not rehash, a bucket keeps its type or goes from
\* ESS to NORMAL in an insert, from NORMAL to EAR in a remove or from EAR to
\* NORMAL in an insert: none goes back to ESS and none goes from ESS to EAR.
C17_SlotStateMachine ==
    [][~last'.rehashed
         => /\ capacity' = capacity
            /\ \A i \in 0..(capacity - 1) :
                  LET old == at(tableData, i).type
                      new == at(tableData', i).type
                  IN  \/ new = old
                      \/ old = "ESS" /\ new = "NORMAL" /\ last'.op = "insert"
                      \/ old = "NORMAL" /\ new = "EAR" /\ last'.op = "remove"
                      \/ old = "EAR" /\ new = "NORMAL" /\ last'.op = "insert"]_vars

\* C17 witness: an insert without rehash has put its key into a bucket that
\* comes before the key's own tombstone on its probe path: that bucket was
\* filled when the key first went past it, then emptied, and is filled again.
C17_Witness ==
    /\ last.op = "insert" /\ last.ok /\ ~last.rehashed
    /\ contains(last.key)
    /\ \E t \in 0..(capacity - 1) :
          /\ isEAR(at(tableData, t))
          /\ at(tableData, t).key = last.key
          /\ PathPos(tableData, offsets, hash, last.key, find(tableData, offsets, hash, last.key))
               < PathPos(tableData, offsets, hash, last.key, t)

\* The least element of a non-empty set of numbers.
Least(S) == CHOOSE i \in S : \A j \in S : i <= j

\* The bucket the spec has insert(key, .) fill: the first tombstone on key's
\* probe path if it comes before the first ESS bucket or there is no ESS
\* bucket, else the first ESS bucket; NoBucket if the path has neither.
TargetSlot(td, offs, h, key) ==
    LET ess == {i \in 0..(Cap(td) - 1) : isESS(at(td, PathIdx(td, offs, h, key, i)))}
        ear == {i \in 0..(Cap(td) - 1) : isEAR(at(td, PathIdx(td, offs, h, key, i)))}
    IN  IF ear # {} /\ (ess = {} \/ Least(ear) < Least(ess))
        THEN PathIdx(td, offs, h, key, Least(ear))
        ELSE IF ess # {} THEN PathIdx(td, offs, h, key, Least(ess)) ELSE NoBucket

\* C18: an insert(k, v) that returns true fills exactly one bucket, the
\* first tombstone on k's probe path if one comes before the first ESS
\* bucket or the path has no ESS bucket, else the first ESS bucket; that
\* bucket was not filled, and no other bucket changes.  When the insert
\* goes on to rehash, the new table holds what the table so filled held.
C18_InsertSlot ==
    [][(last'.op = "insert" /\ last'.ok)
         => \A t \in {TargetSlot(tableData, offsets, hash, last'.key)} :
              /\ t # NoBucket
              /\ isEmpty(at(tableData, t))
              /\ \A filled \in {[tableData EXCEPT ![t + 1] =
                                     [type |-> "NORMAL", key |-> last'.key, value |-> last'.val]]} :
                    /\ Cardinality({i \in 0..(capacity - 1) : at(filled, i) # at(tableData, i)}) = 1
                    /\ IF last'.rehashed
                       THEN /\ KeySet(tableData') = KeySet(filled)
                            /\ \A k \in InUse :
                                  GetIn(tableData', offsets', hash', k) = GetIn(filled, offsets, hash, k)
                       ELSE tableData' = filled]_vars

\* C18 witness: in functionalityTest, with seven tombstones in the table, the
\* insert of "eight" has filled one of them: still only seven buckets are
\* not ESS, while ESS buckets remain.
C18_Witness ==
    /\ pc = 25
    /\ last.op = "insert" /\ last.key = "eight" /\ last.ok /\ ~last.rehashed
    /\ size = 1
    /\ Cardinality({i \in 0..(capacity - 1) : ~isESS(at(tableData, i))}) = 7
    /\ Cardinality({i \in 0..(capacity - 1) : isEAR(at(tableData, i))}) = 6

\* C19: no two filled buckets hold the same key.
C19_NoDuplicateKeys ==
    \A i, j \in Filled(tableData) : at(tableData, i).key = at(tableData, j).key => i = j

\* C19 witness: insert of a key the table holds has returned false after
\* probing past the tombstone of another key, which comes before the key's
\* bucket on its probe path.
C19_Witness ==
    /\ last.op = "insert" /\ ~last.ok
    /\ contains(last.key)
    /\ \E t \in 0..(capacity - 1) :
          /\ isEAR(at(tableData, t))
          /\ at(tableData, t).key # last.key
          /\ PathPos(tableData, offsets, hash, last.key, t)
               < PathPos(tableData, offsets, hash, last.key, find(tableData, offsets, hash, last.key))

\* C20: for every filled bucket, no bucket that comes before it on the probe
\* path of its key is ESS, so find, which stops at the first ESS bucket,
\* reaches it.
C20_NoESSBeforeFilled ==
    \A s \in Filled(tableData) :
        \A k \in {at(tableData, s).key} :
            /\ \A i \in 0..(PathPos(tableData, offsets, hash, k, s) - 1) :
                  ~isESS(at(tableData, PathIdx(tableData, offsets, hash, k, i)))
            /\ find(tableData, offsets, hash, k) = s

\* C20 witness: a rehash has put a key into a bucket that is not its home
\* bucket in the new table.
C20_Witness ==
    /\ last.op = "insert" /\ last.rehashed
    /\ \E s \in Filled(tableData) :
          PathPos(tableData, offsets, hash, at(tableData, s).key, s) >= 1

\* C21: offsets has capacity() elements, is a permutation of
\* 0..capacity()-1 and starts with 0, so the probe path of every key starts
\* at its home bucket and visits every bucket exactly once.
C21_OffsetsPermutation ==
    /\ Len(offsets) = capacity
    /\ Range(offsets) = 0..(capacity - 1)
    /\ \A i, j \in 1..Len(offsets) : offsets[i] = offsets[j] => i = j
    /\ capacity >= 1 => offsets[1] = 0
    /\ \A k \in InUse :
          /\ PathIdx(tableData, offsets, hash, k, 0) = hash[k] % capacity
          /\ \A b \in 0..(capacity - 1) :
                Cardinality({i \in 0..(capacity - 1) :
                               PathIdx(tableData, offsets, hash, k, i) = b}) = 1

\* C21 witness: a rehash has installed the offsets of a new table of at
\* least three buckets, shuffled out of ascending order.
C21_Witness ==
    /\ last.op = "insert" /\ last.rehashed
    /\ capacity >= 3
    /\ \E i \in 1..(Len(offsets) - 1) : offsets[i] > offsets[i + 1]

\* C22: a lookup reads at most capacity() buckets, no bucket twice, and the
\* bucket it returns is the last one read; on a table without ESS buckets
\* the lookup of a key that is not contained reads exactly capacity()
\* buckets and finds nothing.
C22_LookupBounded ==
    \A k \in InUse :
        \A n \in {FindProbes(tableData, offsets, hash, k)} :
            /\ n >= 1 /\ n <= capacity
            /\ \A i, j \in 0..(n - 1) :
                  PathIdx(tableData, offsets, hash, k, i) = PathIdx(tableData, offsets, hash, k, j)
                     => i = j
            /\ contains(k) => find(tableData, offsets, hash, k) = PathIdx(tableData, offsets, hash, k, n - 1)
            /\ (NoESS(tableData) /\ k \notin KeySet(tableData))
                  => (n = capacity /\ find(tableData, offsets, hash, k) = NoBucket)

\* C22 witness: a lookup of a removed key has returned not-found on a table
\* of more than one bucket that has a filled bucket, a tombstone and no ESS
\* bucket.
C22_Witness ==
    /\ last.op \in {"get", "contains", "remove", "index"} /\ ~last.ok
    /\ abs[last.key] = {}
    /\ capacity >= 2 /\ size >= 1
    /\ NoESS(tableData)
    /\ FindProbes(tableData, offsets, hash, last.key) = capacity

\* C23: right after a rehash the table has no tombstone: size() buckets
\* are filled and the other capacity() - size() buckets are ESS.
C23_NoTombstoneAfterRehash ==
    last.rehashed
       => /\ \A i \in 0..(capacity - 1) : ~isEAR(at(tableData, i))
          /\ Cardinality(Filled(tableData)) = size
          /\ Cardinality({i \in 0..(capacity - 1) : isESS(at(tableData, i))}) = capacity - size

\* C23 witness: the last insert of functionalityTest has rehashed the table
\* of 16 buckets into 32.  With the hash that gives the keys the numbers of
\* their first use, "eight" to "fourteen" went to the homes 10 to 15 and 0,
\* so the tombstones of "two" to "seven" in the buckets 2 to 7 were still
\* in the old table.
C23_Witness ==
    /\ pc = 32
    /\ last.op = "insert" /\ last.key = "fifteen" /\ last.rehashed
    /\ capacity = 32 /\ size = 8
    /\ hash = [k \in FTKeys |-> FTOrd(k)]

\* size() / capacity() < threshold, on the values of a state.
UnderThreshold(n, c, th) == n * th[2] < th[1] * c

\* C24 as stated: with valid parameters and insert and remove only,
\* size() / capacity() < threshold whenever a call has returned.
C24_AlwaysUnderThreshold ==
    (ValidParams /\ capacity >= 1) => UnderThreshold(numFilled, capacity, threshold)

\* C24 amended: size() / capacity() < threshold after construction and
\* after every insert that returns true without rehashing, and no call that
\* does not rehash brings the load factor from under the threshold to it; an
\* insert that rehashes does so once, by at most the resize factor, whatever
\* load factor that leaves.
C24_UnderThresholdUnlessRehashed ==
    [][(ValidParams /\ capacity >= 1)
         => /\ (last'.op = "insert" /\ last'.ok /\ ~last'.rehashed)
                  => UnderThreshold(numFilled', capacity', threshold')
            /\ (~last'.rehashed /\ UnderThreshold(numFilled, capacity, threshold))
                  => UnderThreshold(numFilled', capacity', threshold')
            /\ last'.rehashed
                  => /\ ~UnderThreshold(numFilled', capacity, threshold)
                     /\ capacity' * resizeFactor[2] <= capacity * resizeFactor[1]]_vars

\* C24 witness: an insert has rehashed into a table of more than one
\* bucket, which is larger than the table before (a table of one bucket
\* comes only from a table of one bucket), and the load factor is still at
\* the threshold or above it.
C24_Witness ==
    /\ last.op = "insert" /\ last.rehashed
    /\ capacity >= 2
    /\ ~UnderThreshold(numFilled, capacity, threshold)

\* Every bucket of the table is filled with a key other than key.
FullOfOthers(td, key) ==
    \A i \in 0..(Cap(td) - 1) : ~isEmpty(at(td, i)) /\ at(td, i).key # key

\* C25: insert(k, v) returns false exactly when a filled bucket holds k or
\* every bucket is filled with another key (and then size() = capacity());
\* a call that returns false changes nothing in the table.  In every other
\* state it returns true, also when the table has no ESS bucket but has a
\* tombstone.
C25_InsertFailsIff ==
    [][last'.op = "insert"
         => /\ ~last'.ok <=> (\/ last'.key \in KeySet(tableData)
                              \/ FullOfOthers(tableData, last'.key))
            /\ FullOfOthers(tableData, last'.key) => size = capacity
            /\ ~last'.ok => UNCHANGED tableVars
            /\ ( /\ NoESS(tableData)
                 /\ \E i \in 0..(capacity - 1) : isEAR(at(tableData, i))
                 /\ last'.key \notin KeySet(tableData) ) => last'.ok]_vars

\* C25 witness: an insert of a key the table does not hold has returned
\* false, on a table whose every bucket is filled.
C25_Witness ==
    /\ last.op = "insert" /\ ~last.ok
    /\ last.key \notin KeySet(tableData)
    /\ FullOfOthers(tableData, last.key)
    /\ size = capacity

\* The tombstones that hold key: the buckets remove(key) has unloaded and
\* no insert has loaded again.
TombstonesOf(td, key) ==
    {i \in 0..(Cap(td) - 1) : isEAR(at(td, i)) /\ at(td, i).key = key}

StopsOf(td, offs, h, key) ==
    {i \in 0..(Cap(td) - 1) :
        \A b \in {at(td, PathIdx(td, offs, h, key, i))} :
            isESS(b) \/ (~isEmpty(b) /\ b.key = key)}

\* The number of buckets a search for key reads: up to the first bucket it
\* stops at, or all of them.
ProbesOf(td, offs, h, key) ==
    IF StopsOf(td, offs, h, key) # {} THEN Least(StopsOf(td, offs, h, key)) + 1
    ELSE Cap(td)

\* C27: removeTCT(k) leaves the table as remove(k) would: the bucket find
\* returns for k becomes a tombstone and size() drops by one, or nothing
\* changes.  insertTCT(k, v) leaves the table as insert(k, v) has it before
\* the rehash check: the pair loaded where insert loads it and size() one
\* more, or nothing changed.  Neither changes capacity() or the offsets, and
\* each returns the number of buckets it read, between 1 and capacity().
C27_TCTActsLikePlain ==
    [][/\ last'.op = "removeTCT"
            => \A f \in {find(tableData, offsets, hash, last'.key)} :
                  /\ last'.ok <=> f # NoBucket
                  /\ tableData' = IF f # NoBucket
                                  THEN [tableData EXCEPT ![f + 1] = unload(@)]
                                  ELSE tableData
                  /\ numFilled' = IF f # NoBucket THEN numFilled - 1 ELSE numFilled
       /\ last'.op = "insertTCT"
            => \A p \in {InsertProbe(tableData, offsets, hash[last'.key] % capacity,
                                     last'.key, 0, NoBucket)} :
                  /\ last'.ok <=> p.ok
                  /\ tableData' = Placed(tableData, offsets, hash, last'.key, last'.val)
                  /\ numFilled' = IF p.ok THEN numFilled + 1 ELSE numFilled
       /\ last'.op \in {"insertTCT", "removeTCT"}
            => /\ capacity' = capacity /\ offsets' = offsets
               /\ badKeyDrain' = badKeyDrain
               /\ last'.probes >= 1 /\ last'.probes <= capacity
               /\ last'.probes = ProbesOf(tableData, offsets, hash, last'.key)]_vars

\* C27 witness: removeTCT has found its key behind another bucket of the
\* path, unloaded it and returned a count of two probes or more.
C27_Witness ==
    /\ last.op = "removeTCT" /\ last.ok
    /\ last.probes >= 2
    /\ TombstonesOf(tableData, last.key) # {}
    /\ find(tableData, offsets, hash, last.key) = NoBucket

\* C28: numFilled is the number of filled buckets of tableData and is at
\* most capacity(), whatever insert, remove, insertTCT, removeTCT and rehash
\* have done; so keys(), whose keyList has numFilled entries, never indexes
\* past its end and fills every entry.
C28_FilledCounter ==
    /\ numFilled = Cardinality(Filled(tableData))
    /\ numFilled >= 0 /\ numFilled <= capacity
    /\ \A kl \in {KeysIn(tableData, numFilled)} :
          /\ ~kl.thrown
          /\ Len(kl.keyList) = numFilled
          /\ \A j \in 1..numFilled : kl.keyList[j] # ""

\* C28 witness: insertTCT has read the whole path of a table without ESS
\* buckets and loaded its pair into a tombstone after the loop; the table of
\* two buckets or more is now full, and keys() lists capacity() keys.  (The
\* key sits in its home bucket although every bucket was read: that bucket
\* was a tombstone.)
C28_Witness ==
    /\ last.op = "insertTCT" /\ last.ok
    /\ last.probes = capacity
    /\ capacity >= 2
    /\ find(tableData, offsets, hash, last.key) = PathIdx(tableData, offsets, hash, last.key, 0)
    /\ size = capacity
    /\ Cardinality(Filled(tableData)) = capacity
    /\ ~keys.thrown /\ Len(keys.keyList) = capacity

=============================================================================
